---- MODULE Spec2Model ----
(***************************************************************************)
(* Model of catalog/sites/rateyourmusic.py: the RateYourMusic site adapter *)
(* (id_to_url, url_to_id) and its HTML extraction (_extract_from_html).    *)
(*                                                                         *)
(* Python strings are sequences of one-character strings.  None and an     *)
(* unbound local are one-element sequences holding a token that is not a   *)
(* character, so they differ from every string, the empty one included.    *)
(***************************************************************************)
EXTENDS Naturals, Sequences, FiniteSets

VARIABLES
    \* url_to_id(id_to_url(id_value)) and url_to_id(url)
    upc, id_value, url, result,
    \* _extract_from_html(content): the document, the collaborators' answers,
    \* the position in the function body, its locals, and what it returns
    content, detect, pc,
    title, lang, localized_title, localized_desc, artist, genre,
    release_date, track_list, image_url, duration,
    artist_elems, genre_elems, track_elems, e, pd

urlvars == <<upc, id_value, url, result>>

locals == <<title, lang, localized_title, localized_desc, artist, genre,
            release_date, track_list, image_url, duration,
            artist_elems, genre_elems, track_elems, e>>

exvars == <<content, detect, pc, locals, pd>>

vars == <<urlvars, exvars>>

----------------------------------------------------------------------------
(* Bounds of the model *)

\* longest run of characters in a text fragment of a document
MaxLen == 2
\* most matches a list query (artist, genre, track) returns
MaxMatches == 2
\* longest identifier handed to id_to_url
MaxId == 5
\* longest path written after the host part of a URL handed to url_to_id
MaxTail == 4

----------------------------------------------------------------------------
(* Python values *)

\* None where a string is expected, and a local that holds a string or is unbound
None == <<"None">>
Unbound == <<"Unbound">>
\* a local that holds a list of strings or is unbound
UnboundList == <<Unbound>>
\* no exception caught
NoException == "none"

SeqsUpTo(S, n) == UNION {[1..k -> S] : k \in 0..n}

\* str.isspace() on the characters of the model
IsSpace(c) == c \in {" ", "\t", "\n"}

RECURSIVE LStrip(_)
LStrip(s) == IF s # <<>> /\ IsSpace(Head(s)) THEN LStrip(Tail(s)) ELSE s

RECURSIVE RStrip(_)
RStrip(s) ==
    IF s # <<>> /\ IsSpace(s[Len(s)]) THEN RStrip(SubSeq(s, 1, Len(s) - 1)) ELSE s

\* str.strip()
Strip(s) == RStrip(LStrip(s))

\* str.rstrip('/')
RECURSIVE RStripSlash(_)
RStripSlash(s) ==
    IF s # <<>> /\ s[Len(s)] = "/" THEN RStripSlash(SubSeq(s, 1, Len(s) - 1)) ELSE s

\* sep.join(list)
RECURSIVE Join(_, _)
Join(sep, list) ==
    IF list = <<>> THEN <<>>
    ELSE IF Len(list) = 1 THEN list[1]
    ELSE list[1] \o sep \o Join(sep, Tail(list))

\* [x.strip() for x in elems if x.strip()]
RECURSIVE StripNonBlank(_)
StripNonBlank(elems) ==
    IF elems = <<>> THEN <<>>
    ELSE IF Strip(Head(elems)) # <<>>
         THEN <<Strip(Head(elems))>> \o StripNonBlank(Tail(elems))
         ELSE StripNonBlank(Tail(elems))

\* set(list)
ToSet(list) == {list[i] : i \in 1..Len(list)}

Digits == <<"0", "1", "2", "3", "4", "5", "6", "7", "8", "9">>

\* str(n) of a natural number
RECURSIVE DecStr(_)
DecStr(n) ==
    IF n < 10 THEN <<Digits[n + 1]>>
    ELSE DecStr(n \div 10) \o <<Digits[(n % 10) + 1]>>

----------------------------------------------------------------------------
(* id_to_url and url_to_id *)

Https == <<"h", "t", "t", "p", "s", ":", "/", "/">>

\* the literal the regular expression of url_to_id starts with
\* (rateyourmusic\.com/release/album/)
AlbumPath ==
    <<"r", "a", "t", "e", "y", "o", "u", "r", "m", "u", "s", "i", "c", ".",
      "c", "o", "m", "/", "r", "e", "l", "e", "a", "s", "e", "/",
      "a", "l", "b", "u", "m", "/">>

id_to_url(id) == Https \o AlbumPath \o id \o <<"/">>

\* the literal matches url at position i
LiteralAt(u, i) ==
    /\ i + Len(AlbumPath) - 1 <= Len(u)
    /\ SubSeq(u, i, i + Len(AlbumPath) - 1) = AlbumPath

\* /?$ : an optional slash, then the end of the string or the newline that ends it
TailMatches(t) == t \in {<<>>, <<"/">>, <<"\n">>, <<"/", "\n">>}

\* (.+?)/? as it would match were the pattern not anchored with $: lazy, so
\* one character
GroupLenNoAnchor(rest) == IF rest # <<>> /\ rest[1] # "\n" THEN 1 ELSE 0

\* (.+?)/?$ on what follows the literal: lazy, so the shortest non-empty run of
\* characters other than newline that lets the rest match; 0 when there is none
GroupLen(rest) ==
    LET ok == {n \in 1..Len(rest) :
                  /\ \A k \in 1..n : rest[k] # "\n"
                  /\ TailMatches(SubSeq(rest, n + 1, Len(rest)))}
    IN  IF ok = {} THEN 0 ELSE CHOOSE n \in ok : \A m \in ok : n <= m

RestAt(u, i) == SubSeq(u, i + Len(AlbumPath), Len(u))

\* re.search: the leftmost position at which the whole pattern matches
url_to_id(u) ==
    LET starts == {i \in 1..Len(u) : LiteralAt(u, i) /\ GroupLen(RestAt(u, i)) > 0}
    IN  IF starts = {} THEN None
        ELSE LET i == CHOOSE j \in starts : \A k \in starts : j <= k
             IN  RStripSlash(SubSeq(RestAt(u, i), 1, GroupLen(RestAt(u, i))))

----------------------------------------------------------------------------
(* The shapes the adapter contract names *)

\* [\w\-] over the characters of the model
IsSlugChar(c) == c \in {"a", "-"}

\* the segments of s between slashes
RECURSIVE Segments(_, _)
Segments(s, cur) ==
    IF s = <<>> THEN <<cur>>
    ELSE IF Head(s) = "/" THEN <<cur>> \o Segments(Tail(s), <<>>)
    ELSE Segments(Tail(s), Append(cur, Head(s)))

IsSlug(seg) == seg # <<>> /\ \A k \in 1..Len(seg) : IsSlugChar(seg[k])

\* {artist-slug}/{album-slug}[/{version-slug}]
IsCanonicalId(s) ==
    LET segs == Segments(s, <<>>)
    IN  /\ Len(segs) \in {2, 3}
        /\ \A k \in 1..Len(segs) : IsSlug(segs[k])

\* https://rateyourmusic.com/release/album/{id}[/]
HasKnownShape(u) ==
    LET n == Len(Https \o AlbumPath)
        rest == SubSeq(u, n + 1, Len(u))
    IN  /\ Len(u) > n
        /\ SubSeq(u, 1, n) = Https \o AlbumPath
        /\ \/ IsCanonicalId(rest)
           \/ /\ rest[Len(rest)] = "/"
              /\ IsCanonicalId(SubSeq(rest, 1, Len(rest) - 1))

IdChars == {"a", "-", "/"}
UrlChars == {"a", "-", "/", "?"}

Ids == SeqsUpTo(IdChars, MaxId)

\* what precedes the path: this site, a foreign host that embeds the path, nothing
Hosts == {Https, Https \o <<"x", "/", "?">>, <<>>}

Urls ==
    {h \o AlbumPath \o t : h \in Hosts, t \in SeqsUpTo(UrlChars, MaxTail)}
        \cup {Https \o <<"x", "/">> \o t : t \in SeqsUpTo(UrlChars, MaxTail)}

----------------------------------------------------------------------------
(* Documents: what each tree query of _extract_from_html matches *)

Chars == {"a", " "}

\* text fragments: every run of at most MaxLen characters
Plain == SeqsUpTo(Chars, MaxLen)

\* the separator of "Artist - Album"
Sep == <<" ", "-", " ">>

\* og:title contents: a fragment, or two fragments around the separator
TitleTexts == Plain \cup {l \o Sep \o r : l \in Plain, r \in Plain}

\* the match list of an anchor a document holds at most once
One(S) == {<<>>} \cup {<<t>> : t \in S}

\* the match list of an anchor a document may repeat
Lists == SeqsUpTo(Plain, MaxMatches)

\* what dateparser.parse answers: None (the empty tuple here), or a date
NoDate == <<>>
DateVal == <<1959, 8, 17>>
DateAnswers == {NoDate, DateVal}

Langs == {"en", "ja"}

UnknownAlbum ==
    <<"U", "n", "k", "n", "o", "w", "n", " ", "A", "l", "b", "u", "m">>

ImageUrl == Https \o <<"i">>

\* a page with every anchor present
FullDoc ==
    [og_title       |-> <<<<"a", "a">> \o Sep \o <<"a">>>>,
     page_title     |-> <<<<"a">>>>,
     og_image       |-> <<ImageUrl>>,
     artist         |-> <<<<"a">>>>,
     date           |-> <<<<"a">>>>,
     date_parse     |-> DateVal,
     genre          |-> <<<<"a">>, <<"a", "a">>>>,
     track          |-> <<<<"a">>, <<"a", "a">>>>,
     og_description |-> <<<<"a">>>>]

\* a page with no anchor at all
EmptyDoc ==
    [og_title       |-> <<>>,
     page_title     |-> <<>>,
     og_image       |-> <<>>,
     artist         |-> <<>>,
     date           |-> <<>>,
     date_parse     |-> NoDate,
     genre          |-> <<>>,
     track          |-> <<>>,
     og_description |-> <<>>]

\* the documents of the model: the two pages above, with one group of anchors
\* at a time ranging over every match list within the bounds
TitleDocs ==
    {[d EXCEPT !.og_title = o, !.page_title = p] :
        d \in {FullDoc, EmptyDoc}, o \in One(TitleTexts), p \in One(Plain)}

DescriptionDocs ==
    {[d EXCEPT !.og_title = o, !.og_description = x] :
        d \in {FullDoc, EmptyDoc}, o \in One({<<"a">>}), x \in One(Plain)}

ArtistDocs ==
    {[FullDoc EXCEPT !.og_title = o, !.artist = l] :
        o \in {<<<<"a">>>>, <<Sep \o <<"a">>>>, <<<<"a">> \o Sep \o <<"a">>>>},
        l \in Lists}

GenreDocs == {[FullDoc EXCEPT !.genre = l] : l \in Lists}

TrackDocs == {[FullDoc EXCEPT !.track = l] : l \in Lists}

DateDocs ==
    {[d EXCEPT !.date = l, !.date_parse = a, !.og_image = i] :
        d \in {FullDoc, EmptyDoc}, l \in One(Plain), a \in DateAnswers,
        i \in One({ImageUrl})}

Docs ==
    TitleDocs \cup DescriptionDocs \cup ArtistDocs \cup GenreDocs
        \cup TrackDocs \cup DateDocs

\* content.xpath(query): the match list of the query, in document order
Xpath(query) == content[query]

----------------------------------------------------------------------------
(* Collaborators *)

\* " - " in s
RECURSIVE SepIndex(_, _)
SepIndex(s, i) ==
    IF i + Len(Sep) - 1 > Len(s) THEN 0
    ELSE IF SubSeq(s, i, i + Len(Sep) - 1) = Sep THEN i
    ELSE SepIndex(s, i + 1)

HasSep(s) == SepIndex(s, 1) > 0

\* s.split(" - ", 1): what stands before and after the first separator
BeforeSep(s) == SubSeq(s, 1, SepIndex(s, 1) - 1)
AfterSep(s) == SubSeq(s, SepIndex(s, 1) + Len(Sep), Len(s))

\* the texts of a document that detect_language is to tag: the first match of
\* the og:title anchor (past the separator, when it has one), else the first
\* match of the <title> anchor, else the default title; and the first match of
\* the description anchor
DetectTexts(d) ==
    (IF d.og_title # <<>>
     THEN {Strip(IF HasSep(d.og_title[1]) THEN AfterSep(d.og_title[1])
                                           ELSE d.og_title[1])}
     ELSE IF d.page_title # <<>> THEN {Strip(d.page_title[1])}
     ELSE {UnknownAlbum})
        \cup {Strip(d.og_description[i]) : i \in {1} \cap DOMAIN d.og_description}

\* common.models.lang.detect_language: some function from text to language code
detect_language(text) == detect[text]

\* dateparser.parse(date_text): the answer the document carries for its date text
dateparser_parse(date_text) == content.date_parse

\* dt.strftime("%Y-%m-%d")
Pad(s, width) == [i \in 1..(width - Len(s)) |-> "0"] \o s

strftime(dt) ==
    Pad(DecStr(dt[1]), 4) \o <<"-">> \o Pad(DecStr(dt[2]), 2)
        \o <<"-">> \o Pad(DecStr(dt[3]), 2)

\* common.models.misc.uniq: duplicates dropped, the first occurrence kept
RECURSIVE uniq(_)
uniq(list) ==
    IF list = <<>> THEN <<>>
    ELSE LET init == uniq(SubSeq(list, 1, Len(list) - 1))
             last == list[Len(list)]
         IN  IF last \in ToSet(init) THEN init ELSE Append(init, last)

----------------------------------------------------------------------------
(* _extract_from_html, one action per statement that can raise *)

LangUnbound == "unbound"

\* the statements inside the try block, in order
TrySteps ==
    {"og_title", "page_title", "lang", "image", "artist", "date", "genre",
     "track", "desc"}

\* the locals as the assignments before the try block leave them
InitLocals ==
    /\ title = Unbound
    /\ lang = LangUnbound
    /\ localized_title = <<>>
    /\ localized_desc = <<>>
    /\ artist = <<>>
    /\ genre = <<>>
    /\ release_date = None
    /\ track_list = <<>>
    /\ image_url = None
    /\ duration = 0
    /\ artist_elems = UnboundList
    /\ genre_elems = UnboundList
    /\ track_elems = UnboundList
    /\ e = NoException

\* title_elem = content.xpath(og:title); "Artist - Album" is split on the first
\* separator; with no match the page title is tried next
ExtractOgTitle ==
    /\ pc = "og_title"
    /\ LET title_elem == Xpath("og_title")
       IN  IF title_elem # <<>>
           THEN LET title_text == title_elem[1]
                IN  /\ IF HasSep(title_text)
                       THEN /\ artist' = Append(artist, Strip(BeforeSep(title_text)))
                            /\ title' = Strip(AfterSep(title_text))
                       ELSE /\ title' = Strip(title_text)
                            /\ UNCHANGED artist
                    /\ pc' = "lang"
           ELSE /\ pc' = "page_title"
                /\ UNCHANGED <<title, artist>>
    /\ UNCHANGED <<lang, localized_title, localized_desc, genre, release_date,
                   track_list, image_url, duration, artist_elems, genre_elems,
                   track_elems, e, pd, content, detect, urlvars>>

\* title_elem = content.xpath(//title/text()), else "Unknown Album"
ExtractPageTitle ==
    /\ pc = "page_title"
    /\ LET title_elem == Xpath("page_title")
       IN  title' = IF title_elem # <<>> THEN Strip(title_elem[1]) ELSE UnknownAlbum
    /\ pc' = "lang"
    /\ UNCHANGED <<lang, localized_title, localized_desc, artist, genre,
                   release_date, track_list, image_url, duration, artist_elems,
                   genre_elems, track_elems, e, pd, content, detect, urlvars>>

\* lang = detect_language(title); localized_title.append(...)
DetectTitleLanguage ==
    /\ pc = "lang"
    /\ lang' = detect_language(title)
    /\ localized_title' = Append(localized_title, [lang |-> lang', text |-> title])
    /\ pc' = "image"
    /\ UNCHANGED <<title, localized_desc, artist, genre, release_date,
                   track_list, image_url, duration, artist_elems, genre_elems,
                   track_elems, e, pd, content, detect, urlvars>>

\* image_elem = content.xpath(og:image)
ExtractCoverImage ==
    /\ pc = "image"
    /\ LET image_elem == Xpath("og_image")
       IN  image_url' = IF image_elem # <<>> THEN image_elem[1] ELSE image_url
    /\ pc' = "artist"
    /\ UNCHANGED <<title, lang, localized_title, localized_desc, artist, genre,
                   release_date, track_list, duration, artist_elems,
                   genre_elems, track_elems, e, pd, content, detect, urlvars>>

\* artist_elems = content.xpath(...); used only when og:title gave no artist
ExtractArtist ==
    /\ pc = "artist"
    /\ artist_elems' = Xpath("artist")
    /\ artist' = IF artist_elems' # <<>> /\ artist = <<>>
                 THEN StripNonBlank(artist_elems')
                 ELSE artist
    /\ pc' = "date"
    /\ UNCHANGED <<title, lang, localized_title, localized_desc, genre,
                   release_date, track_list, image_url, duration, genre_elems,
                   track_elems, e, pd, content, detect, urlvars>>

\* date_elems = content.xpath(...); dateparser.parse; strftime
ExtractReleaseDate ==
    /\ pc = "date"
    /\ LET date_elems == Xpath("date")
           date_text == Join(<<" ">>, StripNonBlank(date_elems))
           dt == dateparser_parse(date_text)
       IN  release_date' = IF date_elems # <<>> /\ dt # NoDate
                           THEN strftime(dt)
                           ELSE release_date
    /\ pc' = "genre"
    /\ UNCHANGED <<title, lang, localized_title, localized_desc, artist, genre,
                   track_list, image_url, duration, artist_elems, genre_elems,
                   track_elems, e, pd, content, detect, urlvars>>

\* genre_elems = content.xpath(...)
ExtractGenre ==
    /\ pc = "genre"
    /\ genre_elems' = Xpath("genre")
    /\ genre' = IF genre_elems' # <<>> THEN StripNonBlank(genre_elems') ELSE genre
    /\ pc' = "track"
    /\ UNCHANGED <<title, lang, localized_title, localized_desc, artist,
                   release_date, track_list, image_url, duration, artist_elems,
                   track_elems, e, pd, content, detect, urlvars>>

\* track_elems = content.xpath(...)
ExtractTrackList ==
    /\ pc = "track"
    /\ track_elems' = Xpath("track")
    /\ track_list' = IF track_elems' # <<>>
                     THEN StripNonBlank(track_elems')
                     ELSE track_list
    /\ pc' = "desc"
    /\ UNCHANGED <<title, lang, localized_title, localized_desc, artist, genre,
                   release_date, image_url, duration, artist_elems, genre_elems,
                   e, pd, content, detect, urlvars>>

\* desc_elems = content.xpath(og:description); tagged with the title's lang
ExtractDescription ==
    /\ pc = "desc"
    /\ LET desc_elems == Xpath("og_description")
           desc_text == IF desc_elems # <<>> THEN Strip(desc_elems[1]) ELSE <<>>
       IN  localized_desc' =
               IF desc_text # <<>>
               THEN Append(localized_desc, [lang |-> lang, text |-> desc_text])
               ELSE localized_desc
    /\ pc' = "build"
    /\ UNCHANGED <<title, lang, localized_title, artist, genre, release_date,
                   track_list, image_url, duration, artist_elems, genre_elems,
                   track_elems, e, pd, content, detect, urlvars>>

\* except Exception as e: the statement at pc raises (e records which); the
\* handler logs a warning and the function goes on to build the record from the
\* locals as they are
Except ==
    /\ pc \in TrySteps
    /\ e' = pc
    /\ pc' = "build"
    /\ UNCHANGED <<title, lang, localized_title, localized_desc, artist, genre,
                   release_date, track_list, image_url, duration, artist_elems,
                   genre_elems, track_elems, pd, content, detect, urlvars>>

\* f"{i+1}. {t}" for i, t in enumerate(track_list)
Ordinal(i) == i + 1

\* the lines as f"{i}. {t}" would number them
NumberedFromZero(tracks) ==
    [i \in 1..Len(tracks) |-> DecStr(i - 1) \o <<".", " ">> \o tracks[i]]

Numbered(tracks) ==
    [i \in 1..Len(tracks) |-> DecStr(Ordinal(i - 1)) \o <<".", " ">> \o tracks[i]]

\* the metadata of ResourceContent
Metadata ==
    [title |-> IF title # <<>> THEN title ELSE UnknownAlbum,
     localized_title |->
        IF localized_title # <<>>
        THEN uniq(localized_title)
        ELSE <<[lang |-> "en", text |-> UnknownAlbum]>>,
     localized_description |-> uniq(localized_desc),
     artist |-> IF artist # <<>> THEN ToSet(artist) ELSE {},
     genre |-> IF genre # <<>> THEN ToSet(genre) ELSE {},
     release_date |-> release_date,
     track_list |->
        IF track_list # <<>> THEN Join(<<"\n">>, Numbered(track_list)) ELSE None,
     duration |-> IF duration > 0 THEN duration ELSE None,
     cover_image_url |-> image_url]

\* pd = ResourceContent(metadata=...); return pd
BuildResourceContent ==
    /\ pc = "build"
    /\ title # Unbound
    /\ pd' = Metadata
    /\ pc' = "returned"
    /\ UNCHANGED <<locals, content, detect, urlvars>>

\* the metadata reads title, which no statement has bound: UnboundLocalError
\* leaves the function
BuildRaises ==
    /\ pc = "build"
    /\ title = Unbound
    /\ pc' = "raised"
    /\ UNCHANGED <<locals, pd, content, detect, urlvars>>

----------------------------------------------------------------------------
(* The adapter's two functions as steps *)

UrlFromId ==
    /\ upc = "id_to_url"
    /\ url' = id_to_url(id_value)
    /\ upc' = "url_to_id"
    /\ UNCHANGED <<id_value, result, exvars>>

IdFromUrl ==
    /\ upc = "url_to_id"
    /\ result' = url_to_id(url)
    /\ upc' = "done"
    /\ UNCHANGED <<id_value, url, exvars>>

----------------------------------------------------------------------------
(* Specifications *)

UrlIdle == upc = "idle" /\ id_value = None /\ url = None /\ result = None

ExtractIdle ==
    /\ pc = "idle"
    /\ content = EmptyDoc
    /\ detect = [t \in DetectTexts(EmptyDoc) |-> "en"]
    /\ pd = None
    /\ InitLocals

\* one call of _extract_from_html on any document of the model, with any
\* answers of detect_language
Init ==
    /\ UrlIdle
    /\ content \in Docs
    /\ detect \in [DetectTexts(content) -> Langs]
    /\ pc = "og_title"
    /\ pd = None
    /\ InitLocals

Next ==
    \/ ExtractOgTitle
    \/ ExtractPageTitle
    \/ DetectTitleLanguage
    \/ ExtractCoverImage
    \/ ExtractArtist
    \/ ExtractReleaseDate
    \/ ExtractGenre
    \/ ExtractTrackList
    \/ ExtractDescription
    \/ Except
    \/ BuildResourceContent
    \/ BuildRaises

Spec == Init /\ [][Next]_vars

\* url_to_id(id_to_url(id_value)) for any identifier, url_to_id(url) for any URL
InitUrl ==
    /\ ExtractIdle
    /\ result = None
    /\ \/ upc = "id_to_url" /\ id_value \in Ids /\ url = None
       \/ upc = "url_to_id" /\ id_value = None /\ url \in Urls

NextUrl == UrlFromId \/ IdFromUrl

SpecUrl == InitUrl /\ [][NextUrl]_vars

----------------------------------------------------------------------------
(* Claims *)

Returned == pc = "returned"

RecordKeys ==
    {"title", "localized_title", "localized_description", "artist", "genre",
     "release_date", "track_list", "duration", "cover_image_url"}

\* a match list with at least one match that is not blank after trimming
HasText(elems) == \E i \in 1..Len(elems) : Strip(elems[i]) # <<>>

\* C1: _extract_from_html returns a record for every document and never lets an
\* error reach the caller, also when a query or transform raises at any point;
\* the record has the nine fixed keys and a non-empty localized_title.
C1_AlwaysReturnsRecord ==
    /\ pc # "raised"
    /\ Returned => DOMAIN pd = RecordKeys /\ pd.localized_title # <<>>

\* C2: when neither the og:title anchor nor the <title> anchor matches, the
\* record's localized_title is exactly [{lang: "en", text: "Unknown Album"}],
\* whatever detect_language answers.
C2_DefaultTitleIsEnglish ==
    Returned /\ content.og_title = <<>> /\ content.page_title = <<>>
        => pd.localized_title = <<[lang |-> "en", text |-> UnknownAlbum]>>

\* C3: for every identifier of the canonical shape (two or three slugs joined by
\* "/"), url_to_id(id_to_url(i)) is i.
C3_RoundTrip ==
    upc = "done" /\ id_value # None /\ IsCanonicalId(id_value)
        => result = id_value

\* a three-segment identifier has made the round trip
C3_Witness ==
    /\ upc = "done"
    /\ id_value # None
    /\ IsCanonicalId(id_value)
    /\ Len(Segments(id_value, <<>>)) = 3
    /\ result = id_value

\* C4: an exception raised while one field is extracted degrades only that
\* field: every other field whose anchor the document holds, the fields
\* extracted after the failing one included, is populated in the record.
C4_FieldIsolation ==
    Returned =>
        /\ e # "image" /\ content.og_image # <<>> => pd.cover_image_url # None
        /\ e # "artist" /\ HasText(content.artist) => pd.artist # {}
        /\ e # "date" /\ content.date # <<>> /\ content.date_parse # NoDate
               => pd.release_date # None
        /\ e # "genre" /\ HasText(content.genre) => pd.genre # {}
        /\ e # "track" /\ HasText(content.track) => pd.track_list # None
        /\ e # "desc" /\ content.og_description # <<>>
               /\ Strip(content.og_description[1]) # <<>>
               => pd.localized_description # <<>>

\* the artist names the document yields: the artist side of "Artist - Album"
\* when it is not blank, else the matches of the artist anchors
DerivedArtists ==
    LET og == content.og_title
        side == IF og # <<>> /\ HasSep(og[1]) THEN Strip(BeforeSep(og[1])) ELSE <<>>
    IN  IF side # <<>> THEN {side}
        ELSE {Strip(content.artist[i]) : i \in 1..Len(content.artist)} \ {<<>>}

\* C5: artist and genre of the record hold only trimmed, non-blank strings and
\* are the sets of the distinct non-blank trimmed values derived for them, also
\* when og:title is "<artist> - <album>" with a blank artist side.
C5_ArtistGenreSets ==
    Returned =>
        /\ \A s \in pd.artist \cup pd.genre : s # <<>> /\ Strip(s) = s
        /\ artist_elems # UnboundList => pd.artist = DerivedArtists
        /\ genre_elems # UnboundList
               => pd.genre = {Strip(genre_elems[i]) : i \in 1..Len(genre_elems)}
                                 \ {<<>>}

\* the lines of a text: what stands between its newlines
RECURSIVE SplitLines(_, _)
SplitLines(s, cur) ==
    IF s = <<>> THEN <<cur>>
    ELSE IF Head(s) = "\n" THEN <<cur>> \o SplitLines(Tail(s), <<>>)
    ELSE SplitLines(Tail(s), Append(cur, Head(s)))

\* the positions of the track matches that are not blank after trimming
KeptTracks == {i \in 1..Len(track_elems) : Strip(track_elems[i]) # <<>>}

\* the position of the k-th of them
KthKept(k) ==
    CHOOSE i \in KeptTracks : Cardinality({j \in KeptTracks : j <= i}) = k

\* C6: for the track matches the query returned, track_list is absent when no
\* match is non-blank after trimming; otherwise its k-th line is "k. " and the
\* k-th non-blank trimmed match, in document order, duplicates kept.
C6_TrackListRendering ==
    Returned /\ track_elems # UnboundList =>
        IF KeptTracks = {}
        THEN pd.track_list = None
        ELSE /\ pd.track_list # None
             /\ LET lines == SplitLines(pd.track_list, <<>>)
                IN  /\ Len(lines) = Cardinality(KeptTracks)
                    /\ \A k \in 1..Len(lines) :
                          lines[k] = DecStr(k) \o <<".", " ">>
                                         \o Strip(track_elems[KthKept(k)])

\* a blank match was dropped before numbering and the match after it, which
\* needed trimming, is line 1
C6_Witness ==
    /\ Returned
    /\ track_elems # UnboundList
    /\ Len(track_elems) >= 2
    /\ Strip(track_elems[1]) = <<>>
    /\ Strip(track_elems[2]) # <<>>
    /\ Strip(track_elems[2]) # track_elems[2]
    /\ pd.track_list = <<"1", ".", " ">> \o Strip(track_elems[2])

\* C7: the title comes from the first candidate whose matches are not all blank
\* after trimming: og:title when it has text, else <title> when that has text,
\* else "Unknown Album".
C7_TitleFallsThrough ==
    Returned =>
        LET og == content.og_title
            page == content.page_title
        IN  /\ HasText(og) /\ ~HasSep(og[1]) /\ Strip(og[1]) # <<>>
                => pd.title = Strip(og[1])
            /\ ~HasText(og) /\ HasText(page) /\ Strip(page[1]) # <<>>
                => pd.title = Strip(page[1])
            /\ ~HasText(og) /\ ~HasText(page) => pd.title = UnknownAlbum

\* C8: url_to_id answers None unless the URL is
\* https://rateyourmusic.com/release/album/{artist}/{album}[/{version}][/], and
\* every identifier it answers has two or three slugs joined by "/".
C8_UrlToIdShape ==
    upc = "done" /\ result # None
        => HasKnownShape(url) /\ IsCanonicalId(result)

\* C9: a localized_description entry of the record carries the language
\* detect_language answers for that entry's own text, whatever it answers for
\* the title.
C9_DescriptionLanguage ==
    Returned =>
        \A i \in 1..Len(pd.localized_description) :
            pd.localized_description[i].lang
                = detect_language(pd.localized_description[i].text)

\* C10: the record's title is the text of an entry of its localized_title,
\* also when the title anchor is blank after trimming.
C10_TitleInLocalizedTitle ==
    Returned =>
        \E i \in 1..Len(pd.localized_title) : pd.localized_title[i].text = pd.title

====
